---- MODULE Spec2Model ----
(***************************************************************************)
(* Model of pkg/k8s/apis/cilium.io/v2/client/register.go: the registration *)
(* of Cilium's CustomResourceDefinitions (CreateCustomResourceDefinitions, *)
(* createUpdateCRD, needsUpdate) against a Kubernetes API server that is   *)
(* shared with other agents and with the cluster's own CRD controllers.    *)
(*                                                                         *)
(* Strings that the code parses (the schema-version label) are sequences   *)
(* of one-character strings, so that parsing is computed, not assumed.     *)
(* Errors are sequences of message parts; the nil error is <<>>.           *)
(***************************************************************************)
EXTENDS Integers, Sequences, FiniteSets, TLC

\* ------------------------------------------------------------------ bounds

\* Number of createCNPCRD calls made in all, by one process in a row or by
\* several at once.
MaxPasses == 2

\* Attempts the establishment poll makes before its deadline (60 s at 500 ms
\* in the code; the model keeps the deadline and shortens it).
MaxPolls == 2

\* Writes the cluster's own controllers make to status conditions.
MaxEnvWrites == 1

\* Longest schema-version label drawn for the needsUpdate inputs.
MaxLabelLen == 4

\* ------------------------------------------------------------------ names

\* the agent processes racing on the same cluster
Procs == {"agent1", "agent2"}

CNP == "CiliumNetworkPolicy/v2"
CCNP == "CiliumClusterwideNetworkPolicy/v2"
CEP == "v2.CiliumEndpoint"
CN == "v2.CiliumNode"
CID == "v2.CiliumIdentity"

\* The order in which CreateCustomResourceDefinitions registers the kinds.
KindOrder == <<CNP, CCNP, CEP, CN, CID>>

Kinds == {KindOrder[i] : i \in 1..Len(KindOrder)}

CustomResourceDefinitionSchemaVersionKey == "io.cilium.k8s.crd.schema.version"

\* a label some other tool put on the live object
OtherLabelKey == "app.kubernetes.io/managed-by"

\* "1.18"
CustomResourceDefinitionSchemaVersion == <<"1", ".", "1", "8">>

EmptyString == <<>>

\* ------------------------------------------------------------------ errors

Nil == <<>>
ErrNotFound == <<"NotFound">>
ErrAlreadyExists == <<"AlreadyExists">>
ErrConflict == <<"Conflict">>
ErrServer == <<"InternalError">>
ErrWaitTimeout == <<"timed out waiting for the condition">>

\* any failure of the Get taken for not-found
IsNotFound_AnyError(e) == e # Nil

IsNotFound(e) == e = ErrNotFound

\* the race with another creator taken for a failure
IsAlreadyExists_Never(e) == FALSE

IsAlreadyExists(e) == e = ErrAlreadyExists

\* ------------------------------------------------------- version strings

Digits == {"0", "1", "2", "7", "8", "9"}

DigitVal(c) ==
  CASE c = "0" -> 0
    [] c = "1" -> 1
    [] c = "2" -> 2
    [] c = "7" -> 7
    [] c = "8" -> 8
    [] c = "9" -> 9

\* strings.TrimPrefix(s, "v")
TrimPrefixV(s) == IF Len(s) > 0 /\ s[1] = "v" THEN Tail(s) ELSE s

\* strings.Split(s, "."): the parts between the dots
RECURSIVE SplitDots(_)
SplitDots(s) ==
  IF \A i \in 1..Len(s) : s[i] # "."
  THEN <<s>>
  ELSE LET d == CHOOSE i \in 1..Len(s) : s[i] = "." /\ \A j \in 1..(i - 1) : s[j] # "."
       IN <<SubSeq(s, 1, d - 1)>> \o SplitDots(SubSeq(s, d + 1, Len(s)))

\* a non-empty run of decimal digits
IsNumber(s) == Len(s) > 0 /\ \A i \in 1..Len(s) : s[i] \in Digits

\* strconv.ParseUint(s, 10, 64) of a run of digits (leading zeros dropped)
RECURSIVE ParseUint(_)
ParseUint(s) ==
  IF Len(s) = 0 THEN 0
  ELSE 10 * ParseUint(SubSeq(s, 1, Len(s) - 1)) + DigitVal(s[Len(s)])

\* versioncheck.Version(v): a tolerant semantic-version parse. One to three
\* dot-separated numbers, an optional leading "v"; missing minor and patch
\* are zero. ok = FALSE is the parse error.
Version(v) ==
  LET parts == SplitDots(TrimPrefixV(v))
      num(i) == IF i <= Len(parts) THEN ParseUint(parts[i]) ELSE 0
  IN IF Len(parts) <= 3 /\ \A i \in 1..Len(parts) : IsNumber(parts[i])
     THEN [ok |-> TRUE, major |-> num(1), minor |-> num(2), patch |-> num(3)]
     ELSE [ok |-> FALSE, major |-> 0, minor |-> 0, patch |-> 0]

\* semver.Version.LT
LT(a, b) ==
  \/ a.major < b.major
  \/ a.major = b.major /\ a.minor < b.minor
  \/ a.major = b.major /\ a.minor = b.minor /\ a.patch < b.patch

comparableCRDSchemaVersion == Version(CustomResourceDefinitionSchemaVersion)

\* ------------------------------------------------------------ live objects

NamesAccepted == "NamesAccepted"
Established == "Established"
ConditionTrue == "True"
ConditionFalse == "False"

Cond(t, s) == [type |-> t, status |-> s]

Fresh == <<>>
Ready == <<Cond(NamesAccepted, ConditionTrue), Cond(Established, ConditionTrue)>>
Refused == <<Cond(NamesAccepted, ConditionFalse), Cond(Established, ConditionFalse)>>
Clashing == <<Cond(NamesAccepted, ConditionFalse), Cond(Established, ConditionTrue)>>
ClashingLast == <<Cond(Established, ConditionTrue), Cond(NamesAccepted, ConditionFalse)>>

\* the condition lists a definition is found with
CondLists == {Fresh, Ready, Refused, Clashing, ClashingLast}

\* what the cluster's naming and establishing controllers write next: a fresh
\* definition is accepted and established or refused for a name conflict, a
\* conflict is resolved, an established definition runs into a conflict
NextConds(conds) ==
  IF conds = Fresh THEN {Ready, Refused}
  ELSE IF conds = Ready THEN {Clashing}
  ELSE {Ready}

\* no object of that name in the cluster
NoObj == [exists |-> FALSE]

\* a CustomResourceDefinition: Labels, Spec.Validation, ResourceVersion,
\* Status.Conditions
Obj(labels, validation, rv, conds) ==
  [exists |-> TRUE, labels |-> labels, validation |-> validation,
   rv |-> rv, conds |-> conds]

\* the zero value a failed client call leaves in the result
EmptyObj == Obj(<<>>, FALSE, 0, <<>>)

\* Go's map index: the zero value "" for a missing key
Lookup(labels, key) ==
  IF \E i \in 1..Len(labels) : labels[i].key = key
  THEN LET i == CHOOSE i \in 1..Len(labels) : labels[i].key = key
       IN labels[i].value
  ELSE EmptyString

\* Go's two-value map index: whether the key is present
HasKey(labels, key) == \E i \in 1..Len(labels) : labels[i].key = key

Label(k, v) == [key |-> k, value |-> v]

\* the Labels every descriptor of register.go carries
DescLabels ==
  <<Label(CustomResourceDefinitionSchemaVersionKey, CustomResourceDefinitionSchemaVersion)>>

\* the current version itself taken for too old
needsUpdate_NotGreater(clusterCRD) ==
  IF ~clusterCRD.validation THEN TRUE
  ELSE IF ~HasKey(clusterCRD.labels, CustomResourceDefinitionSchemaVersionKey) THEN TRUE
  ELSE LET clusterVersion ==
             Version(Lookup(clusterCRD.labels, CustomResourceDefinitionSchemaVersionKey))
       IN ~clusterVersion.ok \/ ~LT(comparableCRDSchemaVersion, clusterVersion)

needsUpdate(clusterCRD) ==
  IF ~clusterCRD.validation THEN TRUE
  ELSE IF ~HasKey(clusterCRD.labels, CustomResourceDefinitionSchemaVersionKey) THEN TRUE
  ELSE LET clusterVersion ==
             Version(Lookup(clusterCRD.labels, CustomResourceDefinitionSchemaVersionKey))
       IN IF ~clusterVersion.ok \/ LT(clusterVersion, comparableCRDSchemaVersion)
          THEN TRUE
          ELSE FALSE

\* ------------------------------------------------------------------ state

VARIABLES
  cluster,        \* the API server: kind -> live definition or NoObj
  nextRV,         \* the API server's next resource version
  envWrites,      \* writes made so far by the cluster's CRD controllers
  descValidation, \* kind -> whether the embedded document carries Spec.Validation
  identityMode,   \* option.Config.IdentityAllocationMode == IdentityAllocationModeCRD
  pc,             \* process -> the cluster call it issues next
  entry,          \* process -> the function it was started in
  kind,           \* process -> crdName of the running createUpdateCRD
  clusterCRD,     \* process -> createUpdateCRD's clusterCRD
  err,            \* process -> createUpdateCRD's err (as it was left, once returned)
  polls,          \* process -> attempts made by the running wait.Poll
  ret,            \* process -> the error last returned to the caller
  calls,          \* process -> the cluster calls of the running invocation
  nu,             \* process -> the last needsUpdate call and what it returned
  phase1,         \* process -> the object the Get or Create of phase 1 gave
  passes          \* process -> invocations started so far

vars ==
  <<cluster, nextRV, envWrites, descValidation, identityMode, pc, entry, kind,
    clusterCRD, err, polls, ret, calls, nu, phase1, passes>>

\* the parts no step of a process changes
fixed == <<envWrites, descValidation, identityMode, entry, passes>>

NoCall == [called |-> FALSE, arg |-> EmptyObj, ret |-> FALSE]

NoPhase1 == [from |-> "none", obj |-> EmptyObj]

Call(op, k) == [op |-> op, kind |-> k]

\* ------------------------------------------------------- the API server

\* CustomResourceDefinitions().Get: the live object, not-found, or a failure
\* of the round trip
ApiGet(k) ==
  { IF cluster[k].exists
    THEN [obj |-> cluster[k], err |-> Nil]
    ELSE [obj |-> EmptyObj, err |-> ErrNotFound],
    [obj |-> EmptyObj, err |-> ErrServer] }

\* a descriptor that carries the label of the schema version before
ApiCreate_StaleLabel(k) ==
  { IF cluster[k].exists
    THEN [obj |-> EmptyObj, err |-> ErrAlreadyExists, stored |-> cluster[k]]
    ELSE LET o == Obj(<<Label(CustomResourceDefinitionSchemaVersionKey, <<"1", ".", "1", "7">>)>>,
                      descValidation[k], nextRV, <<>>)
         IN [obj |-> o, err |-> Nil, stored |-> o],
    [obj |-> EmptyObj, err |-> ErrServer, stored |-> cluster[k]] }

\* CustomResourceDefinitions().Create of a descriptor: the stored object gets
\* a fresh resource version and no status yet
ApiCreate(k) ==
  { IF cluster[k].exists
    THEN [obj |-> EmptyObj, err |-> ErrAlreadyExists, stored |-> cluster[k]]
    ELSE LET o == Obj(DescLabels, descValidation[k], nextRV, <<>>)
         IN [obj |-> o, err |-> Nil, stored |-> o],
    [obj |-> EmptyObj, err |-> ErrServer, stored |-> cluster[k]] }

\* CustomResourceDefinitions().Update of o: refused unless o carries the live
\* resource version; the status is the server's, not the caller's
ApiUpdate(k, o) ==
  { IF ~cluster[k].exists
    THEN [err |-> ErrNotFound, stored |-> cluster[k]]
    ELSE IF cluster[k].rv # o.rv
    THEN [err |-> ErrConflict, stored |-> cluster[k]]
    ELSE [err |-> Nil,
          stored |-> Obj(o.labels, o.validation, nextRV, cluster[k].conds)],
    [err |-> ErrServer, stored |-> cluster[k]] }

\* CustomResourceDefinitions().Delete by name: no precondition on the version
ApiDelete(k) ==
  { IF cluster[k].exists
    THEN [err |-> Nil, stored |-> NoObj]
    ELSE [err |-> ErrNotFound, stored |-> cluster[k]],
    [err |-> ErrServer, stored |-> cluster[k]] }

\* a write that went through consumes a resource version
Store(k, r) ==
  /\ cluster' = [cluster EXCEPT ![k] = r.stored]
  /\ nextRV' = IF r.stored # cluster[k] /\ r.stored.exists THEN nextRV + 1 ELSE nextRV

\* --------------------------------------------------------------- wait.Poll

\* a poll without a deadline
PollOutcome_NoDeadline(done, e, n) ==
  IF e # Nil THEN [stop |-> TRUE, err |-> e]
  ELSE IF done THEN [stop |-> TRUE, err |-> Nil]
  ELSE [stop |-> FALSE, err |-> Nil]

\* wait.Poll after the condition function returned (done, e) on attempt n:
\* an error ends the poll with that error, done ends it with nil, the
\* deadline ends it with ErrWaitTimeout, otherwise it polls again
PollOutcome(done, e, n) ==
  IF e # Nil THEN [stop |-> TRUE, err |-> e]
  ELSE IF done THEN [stop |-> TRUE, err |-> Nil]
  ELSE IF n >= MaxPolls THEN [stop |-> TRUE, err |-> ErrWaitTimeout]
  ELSE [stop |-> FALSE, err |-> Nil]

\* ------------------------------------------------- CreateCustomResourceDefinitions

Single == "createCNPCRD"
Orchestrator == "CreateCustomResourceDefinitions"

\* the identity kind registered whatever the allocation mode
NextKind_AnyMode(k) ==
  LET i == CHOOSE j \in 1..Len(KindOrder) : KindOrder[j] = k
  IN IF i + 1 > Len(KindOrder) THEN "none" ELSE KindOrder[i + 1]

\* the kind CreateCustomResourceDefinitions registers after k, "none" at the end
NextKind(k) ==
  LET i == CHOOSE j \in 1..Len(KindOrder) : KindOrder[j] = k
  IN IF i + 1 > Len(KindOrder) THEN "none"
     ELSE IF KindOrder[i + 1] = CID /\ ~identityMode THEN "none"
     ELSE KindOrder[i + 1]

\* the error of one kind logged and the next kind registered all the same
Returns_GoesOn(p, e, last) ==
  LET more == entry[p] = Orchestrator /\ NextKind(kind[p]) # "none"
  IN /\ pc' = [pc EXCEPT ![p] = IF more THEN "get" ELSE "done"]
     /\ kind' = [kind EXCEPT ![p] = IF more THEN NextKind(kind[p]) ELSE @]
     /\ ret' = [ret EXCEPT ![p] = e]
     /\ clusterCRD' = [clusterCRD EXCEPT ![p] = EmptyObj]
     /\ err' = [err EXCEPT ![p] = IF more THEN Nil ELSE last]
     /\ polls' = [polls EXCEPT ![p] = 0]
     /\ nu' = [nu EXCEPT ![p] = IF more THEN NoCall ELSE @]
     /\ phase1' = [phase1 EXCEPT ![p] = IF more THEN NoPhase1 ELSE @]

\* createUpdateCRD returns e, its err being last: createCNPCRD hands e to its
\* caller; CreateCustomResourceDefinitions returns a non-nil e, and goes on
\* to the next kind otherwise
Returns(p, e, last) ==
  LET more == entry[p] = Orchestrator /\ e = Nil /\ NextKind(kind[p]) # "none"
  IN /\ pc' = [pc EXCEPT ![p] = IF more THEN "get" ELSE "done"]
     /\ kind' = [kind EXCEPT ![p] = IF more THEN NextKind(kind[p]) ELSE @]
     /\ ret' = [ret EXCEPT ![p] = e]
     /\ clusterCRD' = [clusterCRD EXCEPT ![p] = EmptyObj]
     /\ err' = [err EXCEPT ![p] = IF more THEN Nil ELSE last]
     /\ polls' = [polls EXCEPT ![p] = 0]
     /\ nu' = [nu EXCEPT ![p] = IF more THEN NoCall ELSE @]
     /\ phase1' = [phase1 EXCEPT ![p] = IF more THEN NoPhase1 ELSE @]

\* createUpdateCRD goes on to its next cluster call
Continues(p, next, crd, e, n) ==
  /\ pc' = [pc EXCEPT ![p] = next]
  /\ clusterCRD' = [clusterCRD EXCEPT ![p] = crd]
  /\ err' = [err EXCEPT ![p] = e]
  /\ polls' = [polls EXCEPT ![p] = n]
  /\ UNCHANGED <<kind, ret>>

Logged(p, op) == calls' = [calls EXCEPT ![p] = Append(@, Call(op, kind[p]))]

\* ------------------------------------------------------------ createUpdateCRD

\* the condition of line 340, with Go's left-to-right evaluation: needsUpdate
\* is called only when the two conjuncts before it hold
\* the update decided on the label being there, whatever version it states
UpdateWanted_AnyLabel(k, crd) ==
  /\ descValidation[k]
  /\ Lookup(crd.labels, CustomResourceDefinitionSchemaVersionKey) # EmptyString

\* the update decided without looking for a label first
UpdateWanted_LabelOrNot(k, crd) ==
  /\ descValidation[k]
  /\ needsUpdate(crd)

\* the update decided for a descriptor with or without a validation schema
UpdateWanted_AnyDescriptor(k, crd) ==
  /\ Lookup(crd.labels, CustomResourceDefinitionSchemaVersionKey) # EmptyString
  /\ needsUpdate(crd)

UpdateWanted(k, crd) ==
  /\ descValidation[k]
  /\ Lookup(crd.labels, CustomResourceDefinitionSchemaVersionKey) # EmptyString
  /\ needsUpdate(crd)

NeedsUpdateCalled(k, crd) ==
  /\ descValidation[k]
  /\ Lookup(crd.labels, CustomResourceDefinitionSchemaVersionKey) # EmptyString

\* phase 2, entered with the object of phase 1
Decide(p, crd, from) ==
  /\ Continues(p, IF UpdateWanted(kind[p], crd) THEN "updGet" ELSE "wait", crd, Nil, 0)
  /\ nu' = [nu EXCEPT ![p] =
              IF NeedsUpdateCalled(kind[p], crd)
              THEN [called |-> TRUE, arg |-> crd, ret |-> needsUpdate(crd)]
              ELSE @]
  /\ phase1' = [phase1 EXCEPT ![p] = [from |-> from, obj |-> crd]]

\* lines 317-321, 334-342: the first Get
InitialGet(p) ==
  /\ pc[p] = "get"
  /\ \E r \in ApiGet(kind[p]) :
       IF IsNotFound(r.err)
       THEN /\ Continues(p, "create", r.obj, r.err, 0)
            /\ UNCHANGED <<nu, phase1>>
       ELSE IF r.err # Nil
       THEN Returns(p, r.err, r.err)
       ELSE Decide(p, r.obj, "get")
  /\ Logged(p, "Get")
  /\ UNCHANGED <<cluster, nextRV, fixed>>

\* lines 322-342: Create after a not-found
Create(p) ==
  /\ pc[p] = "create"
  /\ \E r \in ApiCreate(kind[p]) :
       /\ Store(kind[p], r)
       /\ IF IsAlreadyExists(r.err)
          THEN Returns(p, Nil, r.err)
          ELSE IF r.err # Nil
          THEN Returns(p, r.err, r.err)
          ELSE Decide(p, r.obj, "create")
  /\ Logged(p, "Create")
  /\ UNCHANGED fixed

\* lines 347-359, 377-382: the Get of the update poll's condition function
UpdateGet(p) ==
  /\ pc[p] = "updGet"
  /\ \E r \in ApiGet(kind[p]) :
       IF r.err # Nil
       THEN LET out == PollOutcome(FALSE, r.err, polls[p] + 1)
            IN Returns(p, out.err, out.err)
       ELSE IF needsUpdate(r.obj)
       THEN /\ Continues(p, "update", r.obj, Nil, polls[p] + 1)
            /\ nu' = [nu EXCEPT ![p] = [called |-> TRUE, arg |-> r.obj, ret |-> TRUE]]
            /\ UNCHANGED phase1
       ELSE LET out == PollOutcome(TRUE, Nil, polls[p] + 1)
            IN /\ Continues(p, "wait", r.obj, out.err, 0)
               /\ nu' = [nu EXCEPT ![p] = [called |-> TRUE, arg |-> r.obj, ret |-> FALSE]]
               /\ UNCHANGED phase1
  /\ Logged(p, "Get")
  /\ UNCHANGED <<cluster, nextRV, fixed>>

\* the descriptor's label merged into the labels the fetched object carries
Overwritten_Merged(k, crd) ==
  Obj(DescLabels \o SelectSeq(crd.labels,
                              LAMBDA l : l.key # CustomResourceDefinitionSchemaVersionKey),
      descValidation[k], crd.rv, crd.conds)

\* lines 362-363: the fetched object with the descriptor's labels and spec
Overwritten(k, crd) == Obj(DescLabels, descValidation[k], crd.rv, crd.conds)

\* a failed Update compensated like a failed wait
Update_Compensated(p) ==
  /\ pc[p] = "update"
  /\ LET sent == Overwritten(kind[p], clusterCRD[p])
     IN \E r \in ApiUpdate(kind[p], sent) :
          /\ Store(kind[p], r)
          /\ LET out == PollOutcome(r.err = Nil, r.err, polls[p])
             IN /\ Continues(p, IF out.err # Nil THEN "delete" ELSE "wait", sent, out.err, 0)
                /\ UNCHANGED <<nu, phase1>>
  /\ Logged(p, "Update")
  /\ UNCHANGED fixed

\* lines 362-374, 379-382: the Update of the update poll's condition function
Update(p) ==
  /\ pc[p] = "update"
  /\ LET sent == Overwritten(kind[p], clusterCRD[p])
     IN \E r \in ApiUpdate(kind[p], sent) :
          /\ Store(kind[p], r)
          /\ LET out == PollOutcome(r.err = Nil, r.err, polls[p])
             IN IF out.err # Nil
                THEN Returns(p, out.err, out.err)
                ELSE IF out.stop
                THEN /\ Continues(p, "wait", sent, Nil, 0)
                     /\ UNCHANGED <<nu, phase1>>
                ELSE /\ Continues(p, "updGet", sent, Nil, polls[p])
                     /\ UNCHANGED <<nu, phase1>>
  /\ Logged(p, "Update")
  /\ UNCHANGED fixed
\* the loop over clusterCRD.Status.Conditions of lines 388-400: the first
\* condition in list order that makes the condition function return
RECURSIVE WaitScan(_)
WaitScan(conds) ==
  IF conds = <<>> THEN "none"
  ELSE IF Head(conds).type = Established /\ Head(conds).status = ConditionTrue
  THEN "established"
  ELSE IF Head(conds).type = NamesAccepted /\ Head(conds).status = ConditionFalse
  THEN "nameConflict"
  ELSE WaitScan(Tail(conds))

\* lines 387-410, 422-423: one call of the establishment poll's condition
\* function, and what wait.Poll and createUpdateCRD do with its result
\* a failed wait sent back to the update phase
EndOfAttempt_Retried(p, out, crd, e, n) ==
  IF ~out.stop
  THEN /\ Continues(p, "wait", crd, e, n)
       /\ UNCHANGED <<nu, phase1>>
  ELSE IF out.err # Nil
  THEN /\ Continues(p, "updGet", crd, out.err, 0)
       /\ UNCHANGED <<nu, phase1>>
  ELSE Returns(p, Nil, out.err)

EndOfAttempt(p, out, crd, e, n) ==
  IF ~out.stop
  THEN /\ Continues(p, "wait", crd, e, n)
       /\ UNCHANGED <<nu, phase1>>
  ELSE IF out.err # Nil
  THEN /\ Continues(p, "delete", crd, out.err, 0)
       /\ UNCHANGED <<nu, phase1>>
  ELSE Returns(p, Nil, out.err)

WaitPoll(p) ==
  /\ pc[p] = "wait"
  /\ LET scan == WaitScan(clusterCRD[p].conds)
         n == polls[p] + 1
     IN IF scan = "established"
        THEN /\ EndOfAttempt(p, PollOutcome(TRUE, err[p], n), clusterCRD[p], err[p], n)
             /\ UNCHANGED calls
        ELSE IF scan = "nameConflict"
        THEN /\ EndOfAttempt(p, PollOutcome(FALSE, err[p], n), clusterCRD[p], err[p], n)
             /\ UNCHANGED calls
        ELSE /\ \E r \in ApiGet(kind[p]) :
                  EndOfAttempt(p, PollOutcome(FALSE, r.err, n), r.obj, r.err, n)
             /\ Logged(p, "Get")
  /\ UNCHANGED <<cluster, nextRV, fixed>>

\* the message naming the delete failure alone
DeleteFailed_WithoutCause(crdName, deleteErr, e) ==
  <<"unable to delete k8s CRD", crdName>> \o deleteErr

\* line 416: the message naming both the delete failure and the wait failure
DeleteFailed(crdName, deleteErr, e) ==
  <<"unable to delete k8s CRD", crdName>> \o deleteErr \o <<"Deleting CRD due">> \o e

\* the wait's failure forgotten once the object is deleted
Delete_Forgiving(p) ==
  /\ pc[p] = "delete"
  /\ \E r \in ApiDelete(kind[p]) :
       /\ Store(kind[p], r)
       /\ IF r.err # Nil
          THEN Returns(p, DeleteFailed(kind[p], r.err, err[p]), err[p])
          ELSE Returns(p, Nil, err[p])
  /\ Logged(p, "Delete")
  /\ UNCHANGED fixed

\* lines 410-420: the Delete after a failed establishment wait
Delete(p) ==
  /\ pc[p] = "delete"
  /\ \E r \in ApiDelete(kind[p]) :
       /\ Store(kind[p], r)
       /\ IF r.err # Nil
          THEN Returns(p, DeleteFailed(kind[p], r.err, err[p]), err[p])
          ELSE Returns(p, err[p], err[p])
  /\ Logged(p, "Delete")
  /\ UNCHANGED fixed

\* ------------------------------------------------------------ entry points

Started(p, e) ==
  /\ pc' = [pc EXCEPT ![p] = "get"]
  /\ entry' = [entry EXCEPT ![p] = e]
  /\ kind' = [kind EXCEPT ![p] = CNP]
  /\ clusterCRD' = [clusterCRD EXCEPT ![p] = EmptyObj]
  /\ err' = [err EXCEPT ![p] = Nil]
  /\ polls' = [polls EXCEPT ![p] = 0]
  /\ ret' = [ret EXCEPT ![p] = Nil]
  /\ calls' = [calls EXCEPT ![p] = <<>>]
  /\ nu' = [nu EXCEPT ![p] = NoCall]
  /\ phase1' = [phase1 EXCEPT ![p] = NoPhase1]
  /\ passes' = [passes EXCEPT ![p] = @ + 1]
  /\ UNCHANGED <<cluster, nextRV, envWrites, descValidation, identityMode>>

\* lines 117-152: a process calls createCNPCRD, at startup or again
RECURSIVE Sum(_, _)
Sum(f, S) == IF S = {} THEN 0 ELSE LET x == CHOOSE x \in S : TRUE IN f[x] + Sum(f, S \ {x})

StartPass(p) ==
  /\ pc[p] \in {"idle", "done"}
  /\ Sum(passes, Procs) < MaxPasses
  /\ Started(p, Single)

\* lines 89-90: a process calls CreateCustomResourceDefinitions
StartOrch(p) ==
  /\ pc[p] = "idle"
  /\ passes[p] = 0
  /\ Started(p, Orchestrator)

\* ------------------------------------------------------------ the cluster

\* the cluster's CRD controllers rewrite the status conditions of a live
\* definition; like every write it moves the resource version
EnvSetConditions(k) ==
  /\ cluster[k].exists
  /\ envWrites < MaxEnvWrites
  /\ \E c \in NextConds(cluster[k].conds) :
       cluster' = [cluster EXCEPT ![k] =
                     Obj(@.labels, @.validation, nextRV, c)]
  /\ nextRV' = nextRV + 1
  /\ envWrites' = envWrites + 1
  /\ UNCHANGED <<descValidation, identityMode, pc, entry, kind, clusterCRD, err,
                 polls, ret, calls, nu, phase1, passes>>

\* ------------------------------------------------------------ specifications

V117 == <<"1", ".", "1", "7">>
V119 == <<"1", ".", "1", "9">>

\* label maps: the schema-version label absent or one of vers, with or
\* without a label of another tool
LabelMaps(vers) ==
  {<<>>, <<Label(OtherLabelKey, <<"x">>)>>}
    \cup {<<Label(CustomResourceDefinitionSchemaVersionKey, x)>> : x \in vers}
    \cup {<<Label(CustomResourceDefinitionSchemaVersionKey, V117), Label(OtherLabelKey, <<"x">>)>>}

LiveObjs(vers, condLists) ==
  { Obj(l, v, 1, c) : l \in LabelMaps(vers), v \in BOOLEAN, c \in condLists }

ProcInit ==
  /\ pc = [p \in Procs |-> "idle"]
  /\ entry = [p \in Procs |-> Single]
  /\ kind = [p \in Procs |-> CNP]
  /\ clusterCRD = [p \in Procs |-> EmptyObj]
  /\ err = [p \in Procs |-> Nil]
  /\ polls = [p \in Procs |-> 0]
  /\ ret = [p \in Procs |-> Nil]
  /\ calls = [p \in Procs |-> <<>>]
  /\ nu = [p \in Procs |-> NoCall]
  /\ phase1 = [p \in Procs |-> NoPhase1]
  /\ passes = [p \in Procs |-> 0]
  /\ nextRV = 2
  /\ envWrites = 0

\* agents racing on the network-policy definition, found in any state
Init ==
  /\ ProcInit
  /\ \E o \in {NoObj} \cup LiveObjs({EmptyString, V117, CustomResourceDefinitionSchemaVersion}, CondLists) :
       cluster = [k \in Kinds |-> IF k = CNP THEN o ELSE NoObj]
  /\ \E b \in BOOLEAN : descValidation = [k \in Kinds |-> IF k = CNP THEN b ELSE TRUE]
  /\ identityMode = FALSE

ProcStep(p) ==
  \/ InitialGet(p)
  \/ Create(p)
  \/ UpdateGet(p)
  \/ Update(p)
  \/ WaitPoll(p)
  \/ Delete(p)

Next ==
  \/ \E p \in Procs : StartPass(p)
  \/ \E p \in Procs : ProcStep(p)
  \/ \E k \in Kinds : EnvSetConditions(k)

Spec == Init /\ [][Next]_vars
\* one agent registering every kind, each found absent, ready and current,
\* ready with a stale label, or refused for a name conflict
OrchObjs ==
  { NoObj,
    Obj(DescLabels, TRUE, 1, Ready),
    Obj(<<Label(CustomResourceDefinitionSchemaVersionKey, V117)>>, TRUE, 1, Ready),
    Obj(DescLabels, TRUE, 1, Refused) }

InitOrch ==
  /\ ProcInit
  /\ cluster \in [Kinds -> OrchObjs]
  /\ descValidation = [k \in Kinds |-> TRUE]
  /\ identityMode \in BOOLEAN

Agent == "agent1"

NextOrch ==
  \/ StartOrch(Agent)
  \/ ProcStep(Agent)
  \/ \E k \in Kinds : EnvSetConditions(k)

SpecOrch == InitOrch /\ [][NextOrch]_vars

\* one agent calling createCNPCRD, every blocking round trip of which returns:
\* a thread that can take its next step takes it
NextLive ==
  \/ StartPass(Agent)
  \/ ProcStep(Agent)
  \/ \E k \in Kinds : EnvSetConditions(k)

SpecLive == Init /\ [][NextLive]_vars /\ WF_vars(ProcStep(Agent))

\* needsUpdate applied to every live object: the label absent, or any string
\* of up to MaxLabelLen characters, with and without a validation schema

Alphabet == Digits \cup {".", "v", "x"}

Strings(n) == UNION {[1..m -> Alphabet] : m \in 0..n}

InitNeeds ==
  /\ ProcInit
  /\ \E o \in LiveObjs(Strings(MaxLabelLen), {Ready}) :
       cluster = [k \in Kinds |-> IF k = CNP THEN o ELSE NoObj]
  /\ descValidation = [k \in Kinds |-> TRUE]
  /\ identityMode = FALSE

\* lines 426-445: needsUpdate is called on the live object
CallNeedsUpdate(p) ==
  /\ ~nu[p].called
  /\ nu' = [nu EXCEPT ![p] =
              [called |-> TRUE, arg |-> cluster[CNP], ret |-> needsUpdate(cluster[CNP])]]
  /\ UNCHANGED <<cluster, nextRV, envWrites, descValidation, identityMode, pc, entry,
                 kind, clusterCRD, err, polls, ret, calls, phase1, passes>>

NextNeeds == CallNeedsUpdate(Agent)

SpecNeeds == InitNeeds /\ [][NextNeeds]_vars
\* ------------------------------------------------------------ properties

\* The schema version a label states, read off the string itself: an
\* optional "v", then one to three runs of digits separated by single dots.
LabelBody(s) == IF s # <<>> /\ s[1] = "v" THEN SubSeq(s, 2, Len(s)) ELSE s

DotsOf(b) == {i \in 1..Len(b) : b[i] = "."}

StatesVersion(s) ==
  LET b == LabelBody(s)
  IN /\ Len(b) > 0
     /\ \A i \in 1..Len(b) : b[i] \in Digits \cup {"."}
     /\ Cardinality(DotsOf(b)) <= 2
     /\ b[1] # "." /\ b[Len(b)] # "."
     /\ \A i \in 1..(Len(b) - 1) : ~(b[i] = "." /\ b[i + 1] = ".")

RECURSIVE Pow10(_)
Pow10(n) == IF n = 0 THEN 1 ELSE 10 * Pow10(n - 1)

\* the number written in b[lo..hi]
RECURSIVE DigitsSum(_, _, _)
DigitsSum(b, lo, hi) ==
  IF lo > hi THEN 0
  ELSE DigitVal(b[lo]) * Pow10(hi - lo) + DigitsSum(b, lo + 1, hi)

\* the f-th number of a label that states a version, 0 when it has none
Field(s, f) ==
  LET b == LabelBody(s)
      before == {i \in DotsOf(b) : Cardinality({j \in DotsOf(b) : j <= i}) = f - 1}
      after == {i \in DotsOf(b) : Cardinality({j \in DotsOf(b) : j <= i}) = f}
      lo == IF f = 1 THEN 1 ELSE (CHOOSE i \in before : TRUE) + 1
      hi == IF after = {} THEN Len(b) ELSE (CHOOSE i \in after : TRUE) - 1
  IN IF f > Cardinality(DotsOf(b)) + 1 THEN 0 ELSE DigitsSum(b, lo, hi)

\* the compiled-in schema version, 1.18.0
CurrentMajor == 1
CurrentMinor == 18
CurrentPatch == 0

\* the label states a version that is the current one or a later one
AtLeastCurrent(s) ==
  \/ Field(s, 1) > CurrentMajor
  \/ Field(s, 1) = CurrentMajor /\ Field(s, 2) > CurrentMinor
  \/ Field(s, 1) = CurrentMajor /\ Field(s, 2) = CurrentMinor /\ Field(s, 3) >= CurrentPatch

VersionLabels(o) ==
  {o.labels[i].value : i \in {j \in 1..Len(o.labels) :
                                 o.labels[j].key = CustomResourceDefinitionSchemaVersionKey}}

\* a definition is up to date: it has a validation schema and a
\* schema-version label whose version is not less than the current one
UpToDate(o) ==
  /\ o.exists
  /\ o.validation
  /\ \E s \in VersionLabels(o) : StatesVersion(s) /\ AtLeastCurrent(s)

\* a definition carries a schema-version label older than the current one
StaleLabel(o) ==
  /\ o.exists
  /\ \E s \in VersionLabels(o) : StatesVersion(s) /\ ~AtLeastCurrent(s)

\* the list reports Established=true, and no NamesAccepted=false before it
EstablishedFirst(conds) ==
  \E i \in 1..Len(conds) :
    /\ conds[i] = Cond(Established, ConditionTrue)
    /\ \A j \in 1..(i - 1) : conds[j] # Cond(NamesAccepted, ConditionFalse)

\* the list reports Established=true somewhere
ReportsEstablished(conds) ==
  \E i \in 1..Len(conds) : conds[i] = Cond(Established, ConditionTrue)

\* how many calls of op a log holds
Count(log, op) == Cardinality({i \in 1..Len(log) : log[i].op = op})

\* msg holds part at position i
HoldsAt(msg, part, i) ==
  /\ i >= 1
  /\ i + Len(part) - 1 <= Len(msg)
  /\ SubSeq(msg, i, i + Len(part) - 1) = part

\* C1: an Update that fails with a conflict is never returned to the caller
\* of createUpdateCRD; the update loop absorbs it.
C1_ConflictNeverReturned ==
  \A p \in Procs : ret[p] # ErrConflict

\* C2: at the moment createUpdateCRD returns success for a descriptor with a
\* validation schema, the live object exists and is up to date.
C2_SuccessMeansUpToDate ==
  [][\A p \in Procs :
       (pc[p] # "done" /\ pc'[p] = "done" /\ ret'[p] = Nil /\ descValidation[kind[p]])
         => UpToDate(cluster'[kind[p]])]_vars

\* C3: a not-found Get followed by an already-exists Create makes
\* createUpdateCRD return success after exactly these two calls: no Update.
C3_CreateRaceIsSuccess ==
  \A p \in Procs :
    (pc[p] = "done" /\ err[p] = ErrAlreadyExists)
      => /\ ret[p] = Nil
         /\ calls[p] = <<Call("Get", kind[p]), Call("Create", kind[p])>>
         /\ Count(calls[p], "Update") = 0

C3_Witness ==
  \E p \in Procs : pc[p] = "done" /\ err[p] = ErrAlreadyExists /\ ret[p] = Nil
\* nobody but p has written to the cluster since the initial state
OnlyWriter(p) ==
  /\ envWrites = 0
  /\ \A q \in Procs \ {p} : passes[q] = 0

C5_NeedsUpdateIffNotUpToDate ==
  \A p \in Procs :
    nu[p].called => (nu[p].ret = FALSE <=> UpToDate(nu[p].arg))

\* needsUpdate has answered for a label that states a newer version than the
\* current one, for one that states an older one that sorts after it as text
\* ("1.2" against "1.18"), and for one that states none
C5_WitnessNewer ==
  \E p \in Procs :
    /\ nu[p].called
    /\ ~nu[p].ret
    /\ VersionLabels(nu[p].arg) = {<<"1", ".", "1", "9">>}

C5_WitnessOlder ==
  \E p \in Procs :
    /\ nu[p].called
    /\ nu[p].ret
    /\ nu[p].arg.validation
    /\ VersionLabels(nu[p].arg) = {<<"1", ".", "2">>}

C5_Witness ==
  \E p \in Procs :
    /\ nu[p].called
    /\ ~nu[p].ret
    /\ VersionLabels(nu[p].arg) = {<<"v", "2">>}
\* msg holds a and b, one after the other or the other way round
HoldsBoth(msg, a, b) ==
  \E i, j \in 1..Len(msg) :
    /\ HoldsAt(msg, a, i)
    /\ HoldsAt(msg, b, j)
    /\ (i + Len(a) <= j \/ j + Len(b) <= i)

\* C6: an establishment wait that ends without having seen Established=true
\* (deadline or failed Get) is followed by exactly one Delete of that object
\* and a non-nil error, which holds the wait's failure; when the Delete fails
\* as well the error holds both failures.
C6_FailedWaitDeletesAndReports ==
  [][\A p \in Procs :
       /\ (pc[p] = "wait" /\ pc'[p] # "wait")
            => \/ /\ pc'[p] = "delete"
                  /\ err'[p] # Nil
                  /\ Count(calls'[p], "Delete") = 0
               \/ /\ pc'[p] = "done"
                  /\ ret'[p] = Nil
                  /\ EstablishedFirst(clusterCRD[p].conds)
       /\ (pc[p] = "delete" /\ pc'[p] # "delete")
            => /\ pc'[p] = "done"
               /\ calls'[p] = Append(calls[p], Call("Delete", kind[p]))
               /\ Count(calls'[p], "Delete") = 1
               /\ ret'[p] # Nil
               /\ \E i \in 1..Len(ret'[p]) : HoldsAt(ret'[p], err[p], i)
               /\ (cluster'[kind[p]] = cluster[kind[p]]
                     => \E de \in {ErrNotFound, ErrServer} : HoldsBoth(ret'[p], de, err[p]))]_vars

\* a wait ran into its deadline, the Delete failed too, and the caller got
\* one error naming both
C6_Witness ==
  \E p \in Procs :
    /\ pc[p] = "done"
    /\ err[p] = ErrWaitTimeout
    /\ Count(calls[p], "Delete") = 1
    /\ HoldsBoth(ret[p], ErrServer, ErrWaitTimeout)
\* C7 as stated: a pass that finds the live object with a label older than
\* the current version and reporting Established=true, for a descriptor with
\* validation, and whose Update the cluster accepts (it is the one write made,
\* nobody else writes), has issued exactly one Update, leaves the live object
\* up to date and returns success.
C7_StaleLabelConverges ==
  \A p \in Procs :
    (/\ pc[p] = "done"
     /\ passes[p] = 1
     /\ OnlyWriter(p)
     /\ descValidation[kind[p]]
     /\ phase1[p].from = "get"
     /\ StaleLabel(phase1[p].obj)
     /\ ReportsEstablished(phase1[p].obj.conds)
     /\ nextRV = 3)
      => /\ Count(calls[p], "Update") = 1
         /\ ret[p] = Nil
         /\ UpToDate(cluster[kind[p]])

\* the list reports NamesAccepted=false, and no Established=true before it
NamesRefusedFirst(conds) ==
  \E i \in 1..Len(conds) :
    /\ conds[i] = Cond(NamesAccepted, ConditionFalse)
    /\ \A j \in 1..(i - 1) : conds[j] # Cond(Established, ConditionTrue)

\* C8 as stated: a wait that has seen NamesAccepted=false goes on polling,
\* and succeeds when the cluster reports Established=true before the
\* deadline: an attempt that is not the last one, made while the live object
\* reports Established=true, returns success or comes back with that report.
C8_NameConflictThenEstablished ==
  [][\A p \in Procs :
       (/\ pc[p] = "wait"
        /\ NamesRefusedFirst(clusterCRD[p].conds)
        /\ polls[p] + 1 < MaxPolls
        /\ cluster[kind[p]].exists
        /\ EstablishedFirst(cluster[kind[p]].conds)
        /\ pc'[p] # pc[p] \/ polls'[p] # polls[p])
         => \/ pc'[p] = "done" /\ ret'[p] = Nil
            \/ pc'[p] = "wait" /\ EstablishedFirst(clusterCRD'[p].conds)]_vars

\* C9: an object for which a pass has returned success is never removed by
\* the Delete of another pass.
C9_SuccessNeverRevoked ==
  [][\A k \in Kinds :
       (cluster[k].exists /\ ~cluster'[k].exists)
         => ~\E q \in Procs : pc[q] = "done" /\ kind[q] = k /\ ret[q] = Nil]_vars

KindIndex(k) == CHOOSE i \in 1..Len(KindOrder) : KindOrder[i] = k

\* C10: CreateCustomResourceDefinitions calls the cluster for the kinds in
\* the order network policy, cluster-wide network policy, endpoint, node,
\* identity, each pass beginning with a Get once the pass before it is over;
\* once a pass has returned an error, that error is the result and no call
\* is made for any later kind.
C10_OrderAndFailFast ==
  \A p \in Procs :
    entry[p] = Orchestrator =>
      /\ \A i \in 1..Len(calls[p]) :
           LET here == KindIndex(calls[p][i].kind)
               prev == IF i = 1 THEN 0 ELSE KindIndex(calls[p][i - 1].kind)
           IN /\ here \in {prev, prev + 1}
              /\ here = prev + 1 => calls[p][i].op = "Get"
              /\ here <= KindIndex(kind[p])
      /\ ret[p] # Nil =>
           /\ pc[p] = "done"
           /\ calls[p] # <<>>
           /\ calls[p][Len(calls[p])].kind = kind[p]

\* the pass for the second kind failed after the first kind's had succeeded,
\* and CreateCustomResourceDefinitions returned
C10_Witness ==
  \E p \in Procs :
    /\ entry[p] = Orchestrator
    /\ pc[p] = "done"
    /\ ret[p] # Nil
    /\ kind[p] = CCNP
    /\ \E i \in 1..Len(calls[p]) : calls[p][i].kind = CNP
\* C11: a cluster call for the identity kind is made only in the CRD-backed
\* identity-allocation mode and only after calls for each of the four other
\* kinds, and CreateCustomResourceDefinitions moves from one kind to the next
\* only when the pass for the former has returned success; with the mode
\* unset there is never a call for the identity kind.
C11_IdentityOnlyInCRDMode ==
  /\ [](\A p \in Procs :
         entry[p] = Orchestrator =>
           /\ kind[p] = CID => identityMode
           /\ \A i \in 1..Len(calls[p]) :
                calls[p][i].kind = CID =>
                  /\ identityMode
                  /\ \A k \in Kinds \ {CID} :
                       \E j \in 1..(i - 1) : calls[p][j].kind = k)
  /\ [][\A p \in Procs :
          (entry[p] = Orchestrator /\ kind'[p] # kind[p])
            => /\ ret'[p] = Nil
               /\ pc'[p] = "get"
               /\ kind'[p] = NextKind(kind[p])]_vars

\* the identity kind was registered, after the four others
C11_Witness ==
  \E p \in Procs :
    /\ entry[p] = Orchestrator
    /\ identityMode
    /\ pc[p] = "done"
    /\ kind[p] = CID
    /\ ret[p] = Nil
    /\ \E i \in 1..Len(calls[p]) : calls[p][i].kind = CID
\* C12: a pass that has issued a Delete has returned, with a non-nil error;
\* no pass that returned success has issued one.
C12_DeleteOnlyOnFailure ==
  \A p \in Procs :
    Count(calls[p], "Delete") > 0 => pc[p] = "done" /\ ret[p] # Nil

\* a wait ran into its deadline, the Delete went through, and the caller got
\* the wait's error
C12_Witness ==
  \E p \in Procs :
    /\ pc[p] = "done"
    /\ Count(calls[p], "Delete") = 1
    /\ ~cluster[kind[p]].exists
    /\ ret[p] = ErrWaitTimeout
\* C13: every write of a pass is decided on a read of the live object made in
\* the same phase and the same poll iteration: the step in which
\* createUpdateCRD decides on its Create, its Update or its Delete is a Get.
C13_WritesFollowReads ==
  [][\A p \in Procs :
       (pc'[p] # pc[p] /\ pc'[p] \in {"create", "update", "delete"})
         => calls'[p] = Append(calls[p], Call("Get", kind[p]))]_vars
\* p made a step of its own
Moved(p) == pc'[p] # pc[p] \/ polls'[p] # polls[p]

\* C14: a pass whose first Get answered not-found and whose Create succeeded
\* holds an object that matches the descriptor and issues no Update; in its
\* wait, the attempt that finds Established=true in the object it holds
\* returns success without another call, and no other attempt does.
C14_CreatedNeedsNoUpdate ==
  /\ [](\A p \in Procs :
         phase1[p].from = "create" =>
           /\ SubSeq(calls[p], 1, 2) = <<Call("Get", kind[p]), Call("Create", kind[p])>>
           /\ Count(calls[p], "Create") = 1
           /\ Count(calls[p], "Update") = 0
           /\ phase1[p].obj.labels = DescLabels
           /\ phase1[p].obj.validation = descValidation[kind[p]])
  /\ [][\A p \in Procs :
          (phase1[p].from = "create" /\ pc[p] = "wait" /\ Moved(p))
            => (EstablishedFirst(clusterCRD[p].conds)
                  <=> pc'[p] = "done" /\ ret'[p] = Nil /\ calls'[p] = calls[p])]_vars

\* the object was absent, the pass created it, the cluster established it,
\* the wait fetched it and the pass returned success
C14_Witness ==
  \E p \in Procs :
    /\ pc[p] = "done"
    /\ ret[p] = Nil
    /\ phase1[p].from = "create"
    /\ Len(calls[p]) >= 3
    /\ calls[p][3] = Call("Get", kind[p])
    /\ cluster[kind[p]].exists
    /\ cluster[kind[p]].conds = Ready
\* C15: an attempt of the wait made on an object that carries Established=true
\* ends the wait with success, whatever else the object carries and in
\* whatever order.
C15_EstablishedAlwaysWins ==
  [][\A p \in Procs :
       (pc[p] = "wait" /\ ReportsEstablished(clusterCRD[p].conds) /\ Moved(p))
         => pc'[p] = "done" /\ ret'[p] = Nil]_vars
\* the definition carries a schema-version label that is not empty
HasVersionLabel(o) == \E s \in VersionLabels(o) : s # EmptyString

\* C16: the object phase 1 obtained sends the pass into the update phase
\* exactly when the descriptor has a validation schema, the object carries a
\* non-empty schema-version label and the object is not up to date; in every
\* other case the pass goes straight to the wait and issues no Update.
C16_UpdatePhaseEntered ==
  /\ [][\A p \in Procs :
          (pc[p] \in {"get", "create"} /\ phase1'[p].from # "none" /\ Moved(p))
            => LET o == phase1'[p].obj
                   wanted == /\ descValidation[kind[p]]
                             /\ HasVersionLabel(o)
                             /\ ~UpToDate(o)
               IN /\ wanted => pc'[p] = "updGet"
                  /\ ~wanted => pc'[p] = "wait"
                  /\ Count(calls'[p], "Update") = 0]_vars
  /\ [](\A p \in Procs :
         (/\ phase1[p].from # "none"
          /\ ~(/\ descValidation[kind[p]]
               /\ HasVersionLabel(phase1[p].obj)
               /\ ~UpToDate(phase1[p].obj)))
           => /\ pc[p] \in {"wait", "delete", "done"}
              /\ Count(calls[p], "Update") = 0)

\* a live object with a stale label sent the pass into the update phase
C16_Witness ==
  \E p \in Procs :
    /\ pc[p] = "updGet"
    /\ polls[p] = 0
    /\ phase1[p].from = "get"
    /\ descValidation[kind[p]]
    /\ StaleLabel(phase1[p].obj)
C18_HardErrorReturnsAtOnce ==
  [][\A p \in Procs :
       /\ (pc[p] = "get" /\ Moved(p) /\ err'[p] \notin {Nil, ErrNotFound})
            => /\ pc'[p] = "done"
               /\ ret'[p] = err'[p]
               /\ calls'[p] = <<Call("Get", kind[p])>>
               /\ cluster' = cluster
       /\ (pc[p] = "create" /\ Moved(p) /\ err'[p] \notin {Nil, ErrAlreadyExists})
            => /\ pc'[p] = "done"
               /\ ret'[p] = err'[p]
               /\ calls'[p] = <<Call("Get", kind[p]), Call("Create", kind[p])>>
               /\ cluster' = cluster
       /\ (pc[p] = "done" /\ pc'[p] = "done") => calls'[p] = calls[p]]_vars

\* the Create failed on the server and the pass returned that failure
C18_Witness ==
  \E p \in Procs :
    /\ pc[p] = "done"
    /\ calls[p] = <<Call("Get", kind[p]), Call("Create", kind[p])>>
    /\ err[p] = ErrServer
    /\ ret[p] = ErrServer
\* C19: when the Get or the Update of the update phase fails, or its deadline
\* expires, createUpdateCRD returns that error with the failed call as its
\* last: no wait, no Delete. A Delete is only ever decided in the wait.
C19_UpdateFailureNoDelete ==
  [][\A p \in Procs :
       /\ (pc[p] \in {"updGet", "update"} /\ Moved(p) /\ err'[p] # Nil)
            => /\ pc'[p] = "done"
               /\ ret'[p] = err'[p]
               /\ Len(calls'[p]) = Len(calls[p]) + 1
               /\ Count(calls'[p], "Delete") = 0
       /\ (pc[p] \in {"updGet", "update"} /\ Moved(p))
            => pc'[p] \in {"update", "wait", "done"}
       /\ (pc[p] # "delete" /\ pc'[p] = "delete") => pc[p] = "wait"
       /\ (pc[p] = "done" /\ pc'[p] = "done") => calls'[p] = calls[p]]_vars

\* the Update failed on the server and the pass returned that failure, the
\* Update being its last call
C19_Witness ==
  \E p \in Procs :
    /\ pc[p] = "done"
    /\ ret[p] = ErrServer
    /\ calls[p] # <<>>
    /\ calls[p][Len(calls[p])] = Call("Update", kind[p])
\* the phase a pass is in: fetch-or-create, update, wait and its Delete, over
PhaseOf(at) ==
  CASE at \in {"get", "create"} -> 1
    [] at \in {"updGet", "update"} -> 2
    [] at = "wait" -> 3
    [] at = "delete" -> 4
    [] at \in {"idle", "done"} -> 5

\* the call a pass issues at each place
OpAt(at) ==
  CASE at \in {"get", "updGet", "wait"} -> "Get"
    [] at = "create" -> "Create"
    [] at = "update" -> "Update"
    [] at = "delete" -> "Delete"

\* C20: the calls of one pass follow the phases: the first is a Get; a Create
\* is made at most once, right after that Get answered not-found; Updates
\* come after phase 1 and before the wait; a Delete is made at most once and
\* is the last call; and a pass never goes back to an earlier phase.
C20_PhaseOrder ==
  /\ [](\A p \in Procs :
         /\ calls[p] # <<>> => calls[p][1].op = "Get"
         /\ Count(calls[p], "Create") <= 1
         /\ Count(calls[p], "Delete") <= 1
         /\ \A i \in 1..Len(calls[p]) :
              /\ calls[p][i].op = "Create" => i = 2
              /\ calls[p][i].op = "Update" => i >= 3 /\ calls[p][i - 1].op = "Get"
              /\ calls[p][i].op = "Delete" => i = Len(calls[p]) /\ pc[p] = "done")
  /\ [][\A p \in Procs :
          pc[p] \notin {"idle", "done"} =>
            /\ PhaseOf(pc'[p]) >= PhaseOf(pc[p])
            /\ pc'[p] = "create" => pc[p] \in {"get", "create"}
            /\ (pc[p] = "get" /\ pc'[p] = "create") => err'[p] = ErrNotFound
            /\ calls'[p] # calls[p]
                 => calls'[p] = Append(calls[p], Call(OpAt(pc[p]), kind[p]))]_vars

\* a pass went through every phase: it updated a stale object that the
\* cluster never established, and deleted it at the deadline
C20_Witness ==
  \E p \in Procs :
    /\ pc[p] = "done"
    /\ Count(calls[p], "Update") = 1
    /\ Count(calls[p], "Delete") = 1
    /\ Len(calls[p]) >= 5
\* C21: every pass terminates. Neither poll makes more attempts than its
\* deadline allows, a pass makes a bounded number of cluster calls, and a
\* pass that has begun returns, whatever the cluster reports.
C21_PassTerminates ==
  /\ [](\A p \in Procs :
         /\ polls[p] <= MaxPolls
         /\ Len(calls[p]) <= MaxPolls + 4)
  /\ \A p \in Procs : (pc[p] = "get") ~> (pc[p] = "done")

\* the cluster never established the object the pass created: the wait made
\* every attempt its deadline allows, and the pass deleted it and returned
\* the timeout
C21_Witness ==
  \E p \in Procs :
    /\ pc[p] = "done"
    /\ err[p] = ErrWaitTimeout
    /\ ret[p] # Nil
    /\ phase1[p].from = "create"
    /\ Len(calls[p]) = MaxPolls + 3
\* C22: an Update is submitted for the object the Get just before it
\* returned and needsUpdate answered true for; what is submitted is that
\* object (its resource version and status) with the descriptor's label set
\* and spec in place of its own, so the cluster accepts it only at the
\* resource version fetched, and a label of another tool is gone afterwards.
C22_UpdateReplacesLabelsAndSpec ==
  /\ [](\A p \in Procs :
         pc[p] = "update" =>
           /\ calls[p][Len(calls[p])] = Call("Get", kind[p])
           /\ nu[p].called /\ nu[p].ret
           /\ nu[p].arg = clusterCRD[p])
  /\ [][\A p \in Procs :
          (pc[p] = "update" /\ Moved(p)) =>
            LET k == kind[p]
                fetched == clusterCRD[p]
            IN /\ pc'[p] = "wait" =>
                    /\ cluster[k].exists /\ cluster[k].rv = fetched.rv
                    /\ clusterCRD'[p].rv = fetched.rv
                    /\ clusterCRD'[p].conds = fetched.conds
                    /\ clusterCRD'[p].labels = DescLabels
                    /\ clusterCRD'[p].validation = descValidation[k]
                    /\ cluster'[k].labels = DescLabels
                    /\ ~HasKey(cluster'[k].labels, OtherLabelKey)
                    /\ cluster'[k].validation = descValidation[k]
                    /\ cluster'[k].conds = cluster[k].conds
               /\ ret'[p] = ErrConflict =>
                    /\ cluster[k].exists /\ cluster[k].rv # fetched.rv
                    /\ cluster' = cluster]_vars

\* a live object that carried a stale version label and a label of another
\* tool was updated, and has lost the other label
C22_Witness ==
  \E p \in Procs :
    /\ Count(calls[p], "Update") = 1
    /\ OnlyWriter(p)
    /\ nextRV = 3
    /\ phase1[p].from = "get"
    /\ HasKey(phase1[p].obj.labels, OtherLabelKey)
    /\ cluster[kind[p]].exists
    /\ cluster[kind[p]].rv = 2
    /\ cluster[kind[p]].labels = DescLabels
====
